---------------------------- MODULE Spec2Model ----------------------------
(***************************************************************************)
(* Lexical normalization pipelines of pynaptics (src/src/NLP_Preprocessing *)
(* and src/src/nlp_preprocessing).                                         *)
(*                                                                         *)
(* Four programs implement the pipeline:                                   *)
(*   SentencePreproc             nlp_preprocessing/sentence_preproc.py     *)
(*   NLP_sentence_preproc        NLP_Preprocessing/NLP_sentence_preproc.py *)
(*   SentencePreprocTransformer  NLP_Preprocessing/sentence_preproc_trf.py *)
(*   NLP_sentence_preproc_trf    NLP_Preprocessing/NLP_sentence_preproc_trf.py *)
(*                                                                         *)
(* A Python str is a sequence of Unicode code points (naturals), so that   *)
(* str.lower, unicodedata.normalize("NFD", .), re.match and str.split are  *)
(* computed character by character.  The characters of the model are       *)
(* Latin-1 (0..255), the combining diacritical marks U+0300..U+036F, the   *)
(* per-mille and per-ten-thousand signs U+2030, U+2031, the Devanagari     *)
(* vowel sign U+093E and the enclosing circle U+20DD.                      *)
(***************************************************************************)
EXTENDS Integers, Sequences, FiniteSets, TLC

VARIABLES
  variant,        \* the program that was started ("none" before)
  stop_words,     \* the stop words of spaCy the program was started with
  config,         \* the attributes of LoadYaml() the program reads
  STOPWORDS,      \* SentencePreproc.STOPWORDS / NLP_sentence_preproc.stopwords
  EXTRA_LEMMAS,   \* SentencePreproc.EXTRA_LEMMAS / LEMMA_OVERRIDES_ES_MX
  STOP_ES_NOACC,  \* accent-stripped stopwords of the transformer programs
  NEG_KEEP_BASE,  \* negation terms of the transformer programs
  op,             \* the operation called last ("none" before any call)
  tok,            \* its token argument
  doc,            \* its document argument: the tokens the tokenizer produced
                  \* (its str argument, for the operations on a str)
  ret,            \* its return value
  frames,         \* the local variables of each running call of a batch operation
  raised          \* the exception the construction raised ("none" if none)

vars == <<variant, stop_words, config, STOPWORDS, EXTRA_LEMMAS, STOP_ES_NOACC,
          NEG_KEEP_BASE, op, tok, doc, ret, frames, raised>>

-----------------------------------------------------------------------------
(* Characters and str methods                                              *)

\* str.lower() on one character: A-Z and the Latin-1 capitals (U+00C0..U+00DE
\* except the multiplication sign U+00D7) move 32 up; the rest is unchanged.
lower_char(c) ==
  IF (c >= 65 /\ c <= 90) \/ (c >= 192 /\ c <= 222 /\ c # 215) THEN c + 32 ELSE c

\* str.lower()
lower(s) == [i \in 1..Len(s) |-> lower_char(s[i])]

\* Canonical decompositions of the Latin-1 letters (unicodedata NFD).
NFD_TABLE ==
  192 :> <<65,768>> @@ 193 :> <<65,769>> @@ 194 :> <<65,770>> @@ 195 :> <<65,771>> @@
  196 :> <<65,776>> @@ 197 :> <<65,778>> @@ 199 :> <<67,807>> @@ 200 :> <<69,768>> @@
  201 :> <<69,769>> @@ 202 :> <<69,770>> @@ 203 :> <<69,776>> @@ 204 :> <<73,768>> @@
  205 :> <<73,769>> @@ 206 :> <<73,770>> @@ 207 :> <<73,776>> @@ 209 :> <<78,771>> @@
  210 :> <<79,768>> @@ 211 :> <<79,769>> @@ 212 :> <<79,770>> @@ 213 :> <<79,771>> @@
  214 :> <<79,776>> @@ 217 :> <<85,768>> @@ 218 :> <<85,769>> @@ 219 :> <<85,770>> @@
  220 :> <<85,776>> @@ 221 :> <<89,769>> @@ 224 :> <<97,768>> @@ 225 :> <<97,769>> @@
  226 :> <<97,770>> @@ 227 :> <<97,771>> @@ 228 :> <<97,776>> @@ 229 :> <<97,778>> @@
  231 :> <<99,807>> @@ 232 :> <<101,768>> @@ 233 :> <<101,769>> @@ 234 :> <<101,770>> @@
  235 :> <<101,776>> @@ 236 :> <<105,768>> @@ 237 :> <<105,769>> @@ 238 :> <<105,770>> @@
  239 :> <<105,776>> @@ 241 :> <<110,771>> @@ 242 :> <<111,768>> @@ 243 :> <<111,769>> @@
  244 :> <<111,770>> @@ 245 :> <<111,771>> @@ 246 :> <<111,776>> @@ 249 :> <<117,768>> @@
  250 :> <<117,769>> @@ 251 :> <<117,770>> @@ 252 :> <<117,776>> @@ 253 :> <<121,769>> @@
  255 :> <<121,776>>

\* Canonical decompositions of the combining marks U+0340, U+0341, U+0343
\* and U+0344 (the other marks of U+0300..U+036F have none)
NFD_TABLE_MARKS ==
  832 :> <<768>> @@ 833 :> <<769>> @@ 835 :> <<787>> @@ 836 :> <<776,769>>

\* the canonical decomposition of one character
NFD_char(c) ==
  IF c \in DOMAIN NFD_TABLE THEN NFD_TABLE[c]
  ELSE IF c \in DOMAIN NFD_TABLE_MARKS THEN NFD_TABLE_MARKS[c]
  ELSE <<c>>

\* the canonical decompositions of the characters of s, one after the other
RECURSIVE NFD_decompose(_)
NFD_decompose(s) ==
  IF s = <<>> THEN <<>> ELSE NFD_char(Head(s)) \o NFD_decompose(Tail(s))

\* unicodedata.combining(c), the canonical combining class: 0 for every
\* character of the model outside U+0300..U+036F and for U+034F
combining(c) ==
  IF c < 768 \/ c > 879 \/ c = 847 THEN 0
  ELSE IF c \in 820..824 THEN 1
  ELSE IF c \in {801, 802, 807, 808} THEN 202
  ELSE IF c = 795 THEN 216
  ELSE IF c \in (790..793) \cup (796..800) \cup (803..806) \cup (809..819)
               \cup (825..828) \cup (839..841) \cup (845..846)
               \cup (851..854) \cup (857..858) THEN 220
  ELSE IF c \in {789, 794, 856} THEN 232
  ELSE IF c \in {860, 863, 866} THEN 233
  ELSE IF c \in {861, 862, 864, 865} THEN 234
  ELSE IF c = 837 THEN 240
  ELSE 230

\* c put after out, in canonical order: a mark moves in front of the marks
\* of a higher class that end out, and stays behind those of its own class
RECURSIVE canonical_insert(_, _)
canonical_insert(out, c) ==
  IF combining(c) = 0 \/ out = <<>> \/ combining(out[Len(out)]) <= combining(c)
  THEN Append(out, c)
  ELSE Append(canonical_insert(SubSeq(out, 1, Len(out) - 1), c), out[Len(out)])

\* the canonical ordering of the decomposed string s, after out
RECURSIVE canonical_order(_, _)
canonical_order(out, s) ==
  IF s = <<>> THEN out ELSE canonical_order(canonical_insert(out, Head(s)), Tail(s))

\* unicodedata.normalize("NFD", s): canonical decomposition, then canonical
\* ordering of the combining marks
NFD(s) == canonical_order(<<>>, NFD_decompose(s))

\* unicodedata.category(ch) == "Mn": the combining diacritical marks
IsMn(c) == c >= 768 /\ c <= 879

\* the marks are filtered out before the string is decomposed
strip_accents_filter_first(s) == NFD(SelectSeq(s, LAMBDA ch : ~IsMn(ch)))

\* strip_accents / SentencePreprocTransformer._strip_accents
strip_accents(s) == SelectSeq(NFD(s), LAMBDA ch : ~IsMn(ch))

\* unicodedata.category(ch) is "Mc" (U+093E) or "Me" (U+20DD): the combining
\* marks of the model that are spacing or enclosing
IsMcMe(c) == c \in {2366, 8413}

\* str.isspace() on one character, within the characters of the model
isspace(c) == c \in {9, 10, 11, 12, 13, 28, 29, 30, 31, 32, 133, 160}

-----------------------------------------------------------------------------
(* The numeric pattern (re.VERBOSE, re.match)                              *)
(*   ^( (\d+([.,]\d+)?([eE][+-]?\d+)?) (SUFFIX)? | (\d+/\d+) )$            *)
(* A sub-pattern maps a set of start positions (count of characters        *)
(* consumed) to the set of positions where a match of it can end.          *)

\* \d
IsDigit(c) == c >= 48 /\ c <= 57

\* \d+ from position i
Digits(s, i) ==
  { j \in (i + 1)..Len(s) : \A k \in (i + 1)..j : IsDigit(s[k]) }

\* one character of the set cs at position i
OneOf(s, i, cs) == IF i < Len(s) /\ s[i + 1] \in cs THEN {i + 1} ELSE {}

\* the literal string lit at position i
Literal(s, i, lit) ==
  IF i + Len(lit) <= Len(s) /\ \A k \in 1..Len(lit) : s[i + k] = lit[k]
  THEN {i + Len(lit)} ELSE {}

\* The decimal separator is the dot only.
Fraction_dot_only(s, P) ==
  P \cup UNION { UNION { Digits(s, j) : j \in OneOf(s, i, {46}) } : i \in P }

\* ([.,]\d+)?
Fraction(s, P) ==
  P \cup UNION { UNION { Digits(s, j) : j \in OneOf(s, i, {46, 44}) } : i \in P }

\* ([eE][+-]?\d+)?
Exponent(s, P) ==
  P \cup UNION { UNION { Digits(s, j) \cup
                          UNION { Digits(s, k) : k \in OneOf(s, j, {43, 45}) }
                        : j \in OneOf(s, i, {101, 69}) } : i \in P }

\* (\d+([.,]\d+)?([eE][+-]?\d+)?)
Number(s) == Exponent(s, Fraction(s, Digits(s, 0)))

\* (SUFFIX)? for the alternatives in suffixes
Suffix(s, P, suffixes) ==
  P \cup UNION { UNION { Literal(s, i, x) : x \in suffixes } : i \in P }

\* (\d+/\d+)
Ratio(s) == UNION { UNION { Digits(s, j) : j \in OneOf(s, i, {47}) } : i \in Digits(s, 0) }

\* $ : at the end of the string, or just before a newline that ends it
Dollar(s, i) == i = Len(s) \/ (i = Len(s) - 1 /\ s[Len(s)] = 10)

\* (/%|%) of SentencePreprocTransformer._is_numeric_token
PCT_SUFFIXES == { <<47, 37>>, <<37>> }

\* (/%|%|U+2030|U+2031) of NUM_PAT
NUM_PAT_SUFFIXES == { <<47, 37>>, <<37>>, <<8240>>, <<8241>> }

\* pattern.match(txt) of SentencePreprocTransformer._is_numeric_token
pattern_match(txt) ==
  \E i \in Suffix(txt, Number(txt), PCT_SUFFIXES) \cup Ratio(txt) : Dollar(txt, i)

\* NUM_PAT.match(txt)
NUM_PAT_match(txt) ==
  \E i \in Suffix(txt, Number(txt), NUM_PAT_SUFFIXES) \cup Ratio(txt) : Dollar(txt, i)

\* SentencePreprocTransformer._is_numeric_token
_is_numeric_token(t) == t.like_num \/ pattern_match(t.text)

\* is_numeric_token of NLP_sentence_preproc_trf
is_numeric_token(t) == IF t.like_num THEN TRUE ELSE NUM_PAT_match(t.text)

-----------------------------------------------------------------------------
(* Tokens: what the tokenizer hands to the pipeline (spaCy Token)          *)

\* a token; text, lemma_ are str, the flags are the tokenizer's
Token(text, lemma, pos, alpha, space, punct, num) ==
  [text |-> text, lemma_ |-> lemma, pos_ |-> pos, is_alpha |-> alpha,
   is_space |-> space, is_punct |-> punct, like_num |-> num]

\* the value of ret, tok and doc before any call
NoValue == <<>>

NoToken == Token(<<>>, <<>>, "X", FALSE, FALSE, FALSE, FALSE)

-----------------------------------------------------------------------------
(* The numeric classifier on its own: every text below, with either value *)
(* of like_num, is classified by both transformer programs.                *)

\* longest text made of arbitrary characters
MaxTextLen == 3

\* 1 . , e E + - % / per-mille per-ten-thousand a newline
NumAlphabet == {49, 46, 44, 101, 69, 43, 45, 37, 47, 8240, 8241, 97, 10}

ArbitraryTexts == UNION { [1..k -> NumAlphabet] : k \in 1..MaxTextLen }

\* 1, 12, 120
IntParts == { <<49>>, <<49,50>>, <<49,50,48>> }
\* nothing, .3 and ,3
FracParts == { <<>>, <<46,51>>, <<44,51>> }
\* nothing, e3 E3 e-3 e+3 E-3 E+3
ExpParts == { <<>>, <<101,51>>, <<69,51>>, <<101,45,51>>, <<101,43,51>>,
              <<69,45,51>>, <<69,43,51>> }

NumberTexts == { i \o f \o e : i \in IntParts, f \in FracParts, e \in ExpParts }

SuffixedTexts == { n \o x : n \in NumberTexts, x \in NUM_PAT_SUFFIXES }

\* 120/80 and 1/12
RatioTexts == { <<49,50,48,47,56,48>>, <<49,47,49,50>> }

\* s with the character c put in after its first p characters
Insert(s, p, c) == SubSeq(s, 1, p) \o <<c>> \o SubSeq(s, p + 1, Len(s))

\* a text of the grammar with one more character before, inside or after it
WithExtra(S) ==
  UNION { { Insert(s, p, c) : p \in 0..Len(s), c \in NumAlphabet } : s \in S }

\* doce, a/b
WordTexts == { <<100,111,99,101>>, <<97,47,98>> }

NumTexts ==
  ArbitraryTexts \cup NumberTexts \cup SuffixedTexts \cup RatioTexts
    \cup WithExtra(NumberTexts \cup SuffixedTexts \cup RatioTexts) \cup WordTexts

NumTokens ==
  { Token(t, t, "NUM", FALSE, FALSE, FALSE, n) : t \in NumTexts, n \in BOOLEAN }

-----------------------------------------------------------------------------
(* Words                                                                   *)

W_no == <<110,111>>                    \* no
W_No == <<78,111>>                     \* No
W_NO == <<78,79>>                      \* NO
W_la == <<108,97>>                     \* la
W_La == <<76,97>>                      \* La
W_Las == <<76,97,115>>                 \* Las
W_el == <<101,108>>                    \* el
W_es == <<101,115>>                    \* es
W_Es == <<69,115>>                     \* Es
W_ser == <<115,101,114>>               \* ser
W_Ser == <<83,101,114>>                \* Ser
W_estar == <<101,115,116,97,114>>      \* estar
W_agua == <<97,103,117,97>>            \* agua
W_Agua == <<65,103,117,97>>            \* Agua
W_mama == <<109,97,109,225>>           \* mamá
W_mama_noacc == <<109,97,109,97>>      \* mama
W_ningun == <<110,105,110,103,250,110>>        \* ningún
W_Ningun == <<78,105,110,103,250,110>>         \* Ningún
W_ningun_noacc == <<110,105,110,103,117,110>>  \* ningun
W_Ninguna == <<78,105,110,103,117,110,97>>     \* Ninguna
W_ninguna == <<110,105,110,103,117,110,97>>    \* ninguna
W_ninguno == <<110,105,110,103,117,110,111>>   \* ninguno
W_pct == <<49,50,37>>                  \* 12%
W_Del == <<68,101,108>>                \* Del
W_de_el == <<100,101,32,101,108>>      \* de el
W_B12 == <<66,49,50>>                  \* B12
W_b12 == <<98,49,50>>                  \* b12
W_comma == <<44>>                      \* ,
W_num == <<60,110,117,109,62>>         \* <num>
SPACE == <<32>>                        \* " "

-----------------------------------------------------------------------------
(* Construction                                                            *)

\* the stopword set has no special case for "no"
_set_extra_stopwords_keeps_no(stop_words_, cfg) ==
  stop_words_ \cup { lower(w) : w \in cfg.stopwords }

\* SentencePreproc._set_extra_stopwords; stop_words_ is
\* self.nlp_pipeline.Defaults.stop_words
_set_extra_stopwords(stop_words_, cfg) ==
  LET stopwords == stop_words_ \cup { lower(w) : w \in cfg.stopwords }
  IN  stopwords \ {W_no}

\* mx_extra_stops of NLP_sentence_preproc
mx_extra_stops ==
  { <<243,114,97,108,101>>, <<111,114,97,108,101>>, <<225,110,100,97,108,101>>,
    <<97,110,100,97,108,101>>, <<99,104,97,108,101>>, <<110,101,108>>,
    <<110,101,116,97>>, <<110,111,109,225,115>>, <<110,111,109,97,115>>,
    <<112,111,115>>, <<112,97>>, <<111,114,97>>, <<115,97,108,101>>,
    <<118,97,108,101>>, <<111,115,101,97>>, <<111>>, <<115,101,97>>,
    <<101,115,116,101>>, <<101,104>>, <<109,109,109>> }

\* stopwords of NLP_sentence_preproc (module level)
stopwords(stop_words_) ==
  (stop_words_ \cup { lower(w) : w \in mx_extra_stops }) \ {W_no}

\* LEMMA_OVERRIDES_ES_MX of NLP_sentence_preproc
LEMMA_OVERRIDES_ES_MX ==
  \* checar: checo checas checa checamos checan checando checado chequé
  \*         checaste checaron checó checar
  [s \in {<<99,104,101,99,111>>, <<99,104,101,99,97,115>>, <<99,104,101,99,97>>,
          <<99,104,101,99,97,109,111,115>>, <<99,104,101,99,97,110>>,
          <<99,104,101,99,97,110,100,111>>, <<99,104,101,99,97,100,111>>,
          <<99,104,101,113,117,233>>, <<99,104,101,99,97,115,116,101>>,
          <<99,104,101,99,97,114,111,110>>, <<99,104,101,99,243>>,
          <<99,104,101,99,97,114>>} |-> <<99,104,101,99,97,114>>] @@
  \* chambear: chambeo chambeas chambea chambeamos chambeando
  [s \in {<<99,104,97,109,98,101,111>>, <<99,104,97,109,98,101,97,115>>,
          <<99,104,97,109,98,101,97>>, <<99,104,97,109,98,101,97,109,111,115>>,
          <<99,104,97,109,98,101,97,110,100,111>>} |-> <<99,104,97,109,98,101,97,114>>] @@
  \* chatear: chateo chateas chatea chateando
  [s \in {<<99,104,97,116,101,111>>, <<99,104,97,116,101,97,115>>,
          <<99,104,97,116,101,97>>, <<99,104,97,116,101,97,110,100,111>>}
     |-> <<99,104,97,116,101,97,114>>] @@
  \* whatsappear: whatsappeo whatsappeas whatsappea whatsappeando
  [s \in {<<119,104,97,116,115,97,112,112,101,111>>,
          <<119,104,97,116,115,97,112,112,101,97,115>>,
          <<119,104,97,116,115,97,112,112,101,97>>,
          <<119,104,97,116,115,97,112,112,101,97,110,100,111>>}
     |-> <<119,104,97,116,115,97,112,112,101,97,114>>] @@
  \* textear: texteo texteas textea texteando
  [s \in {<<116,101,120,116,101,111>>, <<116,101,120,116,101,97,115>>,
          <<116,101,120,116,101,97>>, <<116,101,120,116,101,97,110,100,111>>}
     |-> <<116,101,120,116,101,97,114>>] @@
  \* parquear: parqueo parqueas parquea parqueando
  [s \in {<<112,97,114,113,117,101,111>>, <<112,97,114,113,117,101,97,115>>,
          <<112,97,114,113,117,101,97>>, <<112,97,114,113,117,101,97,110,100,111>>}
     |-> <<112,97,114,113,117,101,97,114>>]

\* d[j] = k of a dict: a later assignment to the same key replaces the value
setitem(d, j, k) == [x \in DOMAIN d \cup {j} |-> IF x = j THEN k ELSE d[x]]

\* the (j, k) pairs "for k, i in lemmas.items() for j in i", in that order;
\* lemmas is the dict as the sequence of its items <<k, i>>
RECURSIVE comprehension_pairs(_)
comprehension_pairs(lemmas) ==
  IF lemmas = <<>> THEN <<>>
  ELSE LET k == Head(lemmas)[1]
           i == Head(lemmas)[2]
       IN  [n \in 1..Len(i) |-> <<i[n], k>>] \o comprehension_pairs(Tail(lemmas))

\* the first canonical lemma that lists a surface form keeps it
RECURSIVE dict_of_pairs_first_wins(_, _)
dict_of_pairs_first_wins(pairs, d) ==
  IF pairs = <<>> THEN d
  ELSE dict_of_pairs_first_wins(Tail(pairs),
         IF Head(pairs)[1] \in DOMAIN d THEN d
         ELSE setitem(d, Head(pairs)[1], Head(pairs)[2]))

\* {j: k for ...}: the dict built from the pairs, in order, starting from d
RECURSIVE dict_of_pairs(_, _)
dict_of_pairs(pairs, d) ==
  IF pairs = <<>> THEN d
  ELSE dict_of_pairs(Tail(pairs), setitem(d, Head(pairs)[1], Head(pairs)[2]))

\* a null lemmas is read as an empty table
_set_extra_lemmas_raises_null_ok(y) ==
  IF y.kind \in {"missing", "list"} THEN "AttributeError"
  ELSE IF y.kind \in {"dict_int", "dict_None"} THEN "TypeError"
  ELSE "none"

\* the exception SentencePreproc._set_extra_lemmas raises when lemmas has the
\* value y ("none" if it raises none): config.lemmas fails without the
\* attribute, .items() on null or a list, "for j in i" on a number or null
_set_extra_lemmas_raises(y) ==
  IF y.kind = "missing" THEN "AttributeError"
  ELSE IF y.kind \in {"None", "list"} THEN "AttributeError"
  ELSE IF y.kind \in {"dict_int", "dict_None"} THEN "TypeError"
  ELSE "none"

\* config.lemmas.items() as the sequence of the items <<k, i>>, with i as the
\* sequence "for j in i" reads: the elements of a list, the characters of a str
lemmas_items(y) ==
  IF y.kind = "dict" THEN y.items
  ELSE IF y.kind = "dict_str"
       THEN << <<y.key, [n \in 1..Len(y.value) |-> <<y.value[n]>>]>> >>
       ELSE <<>>

\* SentencePreproc._set_extra_lemmas
_set_extra_lemmas(cfg) == dict_of_pairs(comprehension_pairs(cfg.lemmas), <<>>)

\* the configured terms are lowercased and accent-folded when they are loaded
_set_negative_words_folded(cfg) == { strip_accents(lower(n)) : n \in cfg.negative }

\* SentencePreprocTransformer._set_negative_words
_set_negative_words(cfg) == cfg.negative

\* STOP_ES_NOACC of both transformer programs; stop_words_ is SPACY_STOP_ES
STOP_ES_NOACC_of(stop_words_) == { strip_accents(lower(w)) : w \in stop_words_ }

\* NEG_KEEP_BASE of NLP_sentence_preproc_trf
NEG_KEEP_BASE_script ==
  { <<110,111>>, <<110,105>>, <<110,117,110,99,97>>, <<106,97,109,97,115>>,
    <<115,105,110>>, <<116,97,109,112,111,99,111>>, <<110,105,110,103,117,110>>,
    <<110,105,110,103,117,110,97>>, <<110,105,110,103,117,110,111>>,
    <<110,105,110,103,117,110,97,115>>, <<110,105,110,103,117,110,111,115>>,
    <<110,97,100,97>>, <<110,97,100,105,101>> }

-----------------------------------------------------------------------------
(* Operations on tokens                                                    *)

\* the part-of-speech test comes first, and the override table is read only
\* for the other tags
_extra_lemmas_pos_first(t) ==
  LET lw == lower(t.text)
  IN  IF t.pos_ \in {"VERB", "AUX"}
      THEN (IF t.lemma_ # <<>> THEN lower(t.lemma_) ELSE lw)
      ELSE IF lw \in DOMAIN EXTRA_LEMMAS THEN EXTRA_LEMMAS[lw]
      ELSE (IF t.lemma_ # <<>> THEN lower(t.lemma_) ELSE lw)

\* an empty lemma_ is returned as it is, without the fall back to the text
_extra_lemmas_no_fallback(t) ==
  LET lw == lower(t.text)
  IN  IF lw \in DOMAIN EXTRA_LEMMAS THEN EXTRA_LEMMAS[lw] ELSE lower(t.lemma_)

\* SentencePreproc._extra_lemmas
_extra_lemmas(t) ==
  LET lw == lower(t.text)
  IN  IF lw \in DOMAIN EXTRA_LEMMAS THEN EXTRA_LEMMAS[lw]
      ELSE IF t.pos_ \in {"VERB", "AUX"}
      THEN (IF t.lemma_ # <<>> THEN lower(t.lemma_) ELSE lw)
      ELSE (IF t.lemma_ # <<>> THEN lower(t.lemma_) ELSE lw)

\* lemma_with_overrides of NLP_sentence_preproc
lemma_with_overrides(t) ==
  LET l == lower(t.text)
  IN  IF l \in DOMAIN LEMMA_OVERRIDES_ES_MX THEN LEMMA_OVERRIDES_ES_MX[l]
      ELSE IF t.pos_ \in {"VERB", "AUX"}
      THEN (IF t.lemma_ # <<>> THEN lower(t.lemma_) ELSE l)
      ELSE (IF t.lemma_ # <<>> THEN lower(t.lemma_) ELSE l)

\* the negation keep-list is not consulted
_normalize_token_no_keep(token) ==
  IF _is_numeric_token(token) THEN token.text
  ELSE IF token.is_space \/ token.is_punct THEN <<>>
  ELSE LET lem == strip_accents(lower(token.lemma_))
       IN  IF lem \in STOP_ES_NOACC THEN <<>> ELSE lem

\* the test of is_space and is_punct is left out
_normalize_token_no_skip(token) ==
  IF _is_numeric_token(token) THEN token.text
  ELSE LET lem == strip_accents(lower(token.lemma_))
       IN  IF lem \in STOP_ES_NOACC /\ lem \notin NEG_KEEP_BASE THEN <<>>
           ELSE lem

\* a numeric token gives the placeholder of the script, not its text
_normalize_token_placeholder(token) ==
  IF _is_numeric_token(token) THEN W_num
  ELSE IF token.is_space \/ token.is_punct THEN <<>>
  ELSE LET lem == strip_accents(lower(token.lemma_))
       IN  IF lem \in STOP_ES_NOACC /\ lem \notin NEG_KEEP_BASE THEN <<>>
           ELSE lem

\* the test of is_space and is_punct comes before the numeric test
_normalize_token_skip_first(token) ==
  IF token.is_space \/ token.is_punct THEN <<>>
  ELSE IF _is_numeric_token(token) THEN token.text
  ELSE LET lem == strip_accents(lower(token.lemma_))
       IN  IF lem \in STOP_ES_NOACC /\ lem \notin NEG_KEEP_BASE THEN <<>>
           ELSE lem

\* a lemma of the keep-list is returned with its accents
_normalize_token_negation_unfolded(token) ==
  IF _is_numeric_token(token) THEN token.text
  ELSE IF token.is_space \/ token.is_punct THEN <<>>
  ELSE LET lem == strip_accents(lower(token.lemma_))
       IN  IF lem \in STOP_ES_NOACC /\ lem \notin NEG_KEEP_BASE THEN <<>>
           ELSE IF lem \in NEG_KEEP_BASE THEN lower(token.lemma_)
           ELSE lem

\* a token without lemma is normalized through its text
_normalize_token_surface_fallback(token) ==
  IF _is_numeric_token(token) THEN token.text
  ELSE IF token.is_space \/ token.is_punct THEN <<>>
  ELSE LET lem == strip_accents(lower(IF token.lemma_ # <<>> THEN token.lemma_
                                      ELSE token.text))
       IN  IF lem \in STOP_ES_NOACC /\ lem \notin NEG_KEEP_BASE THEN <<>>
           ELSE lem

\* SentencePreprocTransformer._normalize_token
_normalize_token(token) ==
  IF _is_numeric_token(token) THEN token.text
  ELSE IF token.is_space \/ token.is_punct THEN <<>>
  ELSE LET lem == strip_accents(lower(token.lemma_))
       IN  IF lem \in STOP_ES_NOACC /\ lem \notin NEG_KEEP_BASE THEN <<>>
           ELSE lem

\* normalize_token of NLP_sentence_preproc_trf
normalize_token(t) ==
  LET x == lower(t.lemma_)
  IN  IF is_numeric_token(t) THEN W_num
      ELSE IF t.is_space \/ t.is_punct THEN <<>>
      ELSE LET x_noacc == strip_accents(x)
           IN  IF x_noacc \in STOP_ES_NOACC /\ x_noacc \notin NEG_KEEP_BASE
               THEN <<>> ELSE x_noacc

-----------------------------------------------------------------------------
(* Documents                                                               *)

\* sep.join(l)
RECURSIVE join(_, _)
join(sep, l) ==
  IF l = <<>> THEN <<>>
  ELSE IF Len(l) = 1 THEN l[1]
  ELSE l[1] \o sep \o join(sep, Tail(l))

\* s.split(): the maximal runs of characters that are not whitespace;
\* word is the run being read
RECURSIVE split_from(_, _)
split_from(s, word) ==
  IF s = <<>> THEN (IF word = <<>> THEN <<>> ELSE <<word>>)
  ELSE IF isspace(Head(s))
       THEN (IF word = <<>> THEN <<>> ELSE <<word>>) \o split_from(Tail(s), <<>>)
       ELSE split_from(Tail(s), Append(word, Head(s)))

split(s) == split_from(s, <<>>)

\* the kept lemmas come out last token first
RECURSIVE SentencePreproc_run_reversed(_)
SentencePreproc_run_reversed(d) ==
  IF d = <<>> THEN <<>>
  ELSE LET t == Head(d)
           lw == lower(t.text)
       IN  SentencePreproc_run_reversed(Tail(d)) \o
           (IF t.is_alpha /\ lw \notin STOPWORDS THEN <<_extra_lemmas(t)>> ELSE <<>>)

\* the stop words are compared with the resolved lemma, not with the text
RECURSIVE SentencePreproc_run_lemma_stop(_)
SentencePreproc_run_lemma_stop(d) ==
  IF d = <<>> THEN <<>>
  ELSE LET t == Head(d)
       IN  (IF t.is_alpha /\ _extra_lemmas(t) \notin STOPWORDS
            THEN <<_extra_lemmas(t)>> ELSE <<>>)
           \o SentencePreproc_run_lemma_stop(Tail(d))

\* SentencePreproc.run; d is self.nlp_pipeline(text)
RECURSIVE SentencePreproc_run(_)
SentencePreproc_run(d) ==
  IF d = <<>> THEN <<>>
  ELSE LET t == Head(d)
           lw == lower(t.text)
       IN  (IF t.is_alpha /\ lw \notin STOPWORDS THEN <<_extra_lemmas(t)>> ELSE <<>>)
           \o SentencePreproc_run(Tail(d))

\* preprocess of NLP_sentence_preproc; d is nlp(text)
RECURSIVE preprocess(_)
preprocess(d) ==
  IF d = <<>> THEN <<>>
  ELSE LET t == Head(d)
           lw == lower(t.text)
       IN  (IF ~t.is_alpha THEN <<>>
            ELSE IF lw # W_no /\ lw \in STOPWORDS THEN <<>>
            ELSE <<lemma_with_overrides(t)>>)
           \o preprocess(Tail(d))

\* the outputs of all tokens are joined: the empty ones are not taken out
\* and the spaces are not collapsed
run_doc_joins_all(d) ==
  join(SPACE, [i \in 1..Len(d) |-> _normalize_token(d[i])])

\* the body of the loop of SentencePreprocTransformer.run for one doc
run_doc(d) ==
  LET toks  == [i \in 1..Len(d) |-> _normalize_token(d[i])]
      toks2 == SelectSeq(toks, LAMBDA w : w # <<>>)
      s     == join(SPACE, toks2)
  IN  join(SPACE, split(s))

\* a text that leaves no token has no document in the result
SentencePreprocTransformer_run_skips_empty(docs) ==
  SelectSeq([n \in 1..Len(docs) |-> run_doc(docs[n])], LAMBDA x : x # <<>>)

\* SentencePreprocTransformer.run; docs is what nlp_pipeline.pipe(texts)
\* yields, one doc per text, in the order of texts
SentencePreprocTransformer_run(docs) == [n \in 1..Len(docs) |-> run_doc(docs[n])]

\* the body of the loop of preprocess_texts_to_string for one doc
preprocess_doc(d) ==
  LET toks  == [i \in 1..Len(d) |-> normalize_token(d[i])]
      toks2 == SelectSeq(toks, LAMBDA w : w # <<>>)
      s     == join(SPACE, toks2)
  IN  join(SPACE, split(s))

\* preprocess_texts_to_string of NLP_sentence_preproc_trf
preprocess_texts_to_string(docs) == [n \in 1..Len(docs) |-> preprocess_doc(docs[n])]

-----------------------------------------------------------------------------
(* Inputs: the stop words spaCy ships, the YAML configuration, the tokens  *)

\* most items of config.lemmas
MaxLemmaEntries == 2
\* most tokens of the doc given to SentencePreproc.run and preprocess
MaxDocLen == 2
\* most texts given to the transformer programs in one call
MaxBatch == 2
\* most tokens of all docs of such a call together
MaxBatchTokens == 2
\* most texts given to a call whose loop is followed step by step
MaxLoopBatch == 2

\* nlp.Defaults.stop_words / SPACY_STOP_ES: la, with or without no, ningún
\* and ninguno
StopWordChoices ==
  { {W_la}, {W_la, W_no}, {W_la, W_ningun}, {W_la, W_no, W_ningun, W_ninguno} }

\* config.stopwords: nothing, or NO, Agua and Es
ExtraStopChoices == { {}, {W_NO, W_Agua, W_Es} }

\* config.negative: some of no, ningún, ningun, ninguna
NegativeChoices ==
  { {}, {W_no}, {W_ningun}, {W_ningun_noacc}, {W_ninguna}, {W_no, W_ningun_noacc} }

\* canonical lemmas of config.lemmas: ser, estar and the empty string
LemmaKeys == { W_ser, W_estar, <<>> }

\* surface forms listed under a canonical lemma: [es] or [Es]
VariantLists == { <<W_es>>, <<W_Es>> }

\* config.lemmas: a dict, as the sequence of its items; keys are distinct
LemmaTables ==
  UNION { { t \in [1..n -> LemmaKeys \X VariantLists] :
              \A a, b \in 1..n : t[a][1] = t[b][1] => a = b }
          : n \in 0..MaxLemmaEntries }

\* values of the YAML document "lemmas" that are no dict of lists: no such
\* document, null, a list, and a dict {ser: v} whose value v is a number,
\* null, or the str "es"
MalformedLemmas ==
  { [kind |-> "missing"], [kind |-> "None"], [kind |-> "list"],
    [kind |-> "dict_int", key |-> W_ser], [kind |-> "dict_None", key |-> W_ser],
    [kind |-> "dict_str", key |-> W_ser, value |-> W_es] }

\* the values of the YAML document "lemmas"
YamlLemmas == { [kind |-> "dict", items |-> t] : t \in LemmaTables } \cup MalformedLemmas

\* tokens given to the operations of SentencePreproc and NLP_sentence_preproc,
\* which read text, lemma_, pos_ and is_alpha: No/no, Es/Ser, Es without
\* lemma, La/la, Agua/agua, Agua without lemma
TextLemmaLG ==
  { <<W_No, W_no>>, <<W_Es, W_Ser>>, <<W_Es, <<>>>>, <<W_La, W_la>>,
    <<W_Agua, W_agua>>, <<W_Agua, <<>>>> }

TokensLG ==
  { Token(tl[1], tl[2], p, a, FALSE, FALSE, FALSE) :
      tl \in TextLemmaLG, p \in {"VERB", "NOUN"}, a \in BOOLEAN }

\* tokens given to lemma_with_overrides: those, and Checó/Ser, Checó without lemma
TokensOverridesMX ==
  TokensLG \cup
  { Token(<<67,104,101,99,243>>, l, p, TRUE, FALSE, FALSE, FALSE) :
      l \in {<<>>, W_Ser}, p \in {"VERB", "NOUN"} }

\* tokens given to the operations of the transformer programs, which read
\* text, lemma_, like_num, is_space and is_punct: No/no, No without lemma,
\* Ningún/Ningún, Ninguna/ninguno, La/la, mamá/mamá, 12%/12%
TextLemmaTRF ==
  { <<W_No, W_no>>, <<W_No, <<>>>>, <<W_Ningun, W_Ningun>>, <<W_Ninguna, W_ninguno>>,
    <<W_La, W_la>>, <<W_mama, W_mama>>, <<W_pct, W_pct>> }

\* B12/b12: a token that is not alphabetic and whose text is not a number
TokensNotAlpha ==
  { Token(W_B12, W_b12, "X", FALSE, s, p, n) :
      s \in BOOLEAN, p \in BOOLEAN, n \in BOOLEAN }

TokensTRF ==
  { Token(tl[1], tl[2], "X", TRUE, s, p, n) :
      tl \in TextLemmaTRF, s \in BOOLEAN, p \in BOOLEAN, n \in BOOLEAN }
    \cup TokensNotAlpha

\* the tokens of documents: La, mamá, No, 12%, and Del, whose lemma is the
\* two words "de el" (the lemma of a contraction)
T_La   == Token(W_La, W_la, "DET", TRUE, FALSE, FALSE, FALSE)
T_mama == Token(W_mama, W_mama, "NOUN", TRUE, FALSE, FALSE, FALSE)
T_No   == Token(W_No, W_no, "ADV", TRUE, FALSE, FALSE, FALSE)
T_pct  == Token(W_pct, W_pct, "NUM", FALSE, FALSE, FALSE, FALSE)
T_Del  == Token(W_Del, W_de_el, "ADP", TRUE, FALSE, FALSE, FALSE)

DocTokens == { T_La, T_mama, T_No, T_pct, T_Del }

DocsUpTo(n) == UNION { [1..k -> DocTokens] : k \in 0..n }

Docs == DocsUpTo(MaxDocLen)

\* the verb Es, which config.stopwords and config.lemmas may both list, and
\* Las, whose lemma is the stop word la
T_Es  == Token(W_Es, W_Ser, "VERB", TRUE, FALSE, FALSE, FALSE)
T_Las == Token(W_Las, W_la, "DET", TRUE, FALSE, FALSE, FALSE)

\* the docs given to SentencePreproc.run and preprocess: those, and "Es",
\* "Las", "Es Las", "Las 12%"
DocsLG == Docs \cup { <<T_Es>>, <<T_Las>>, <<T_Es, T_Las>>, <<T_Las, T_pct>> }

\* the batches of exactly k docs with at most n tokens together
RECURSIVE BatchesOf(_, _)
BatchesOf(k, n) ==
  IF k = 0 THEN { <<>> }
  ELSE UNION { { <<d>> \o b : b \in BatchesOf(k - 1, n - Len(d)) } : d \in DocsUpTo(n) }

Batches == UNION { BatchesOf(k, MaxBatchTokens) : k \in 0..MaxBatch }

\* longest str given to strip_accents
MaxFoldLen == 3

\* a E é É ñ, the combining acute accent U+0301, the combining cedilla
\* U+0327 (of a lower combining class), the combining dialytika tonos U+0344
\* (which decomposes), the Devanagari vowel sign U+093E and the enclosing
\* circle U+20DD
FoldAlphabet == {97, 69, 233, 201, 241, 769, 807, 836, 2366, 8413}

FoldTexts == UNION { [1..k -> FoldAlphabet] : k \in 0..MaxFoldLen }

\* the docs of the calls whose loop is followed step by step: of an empty
\* text, and of "La mamá No"
LoopDocs == { <<>>, <<T_La, T_mama, T_No>> }

LoopBatches == UNION { [1..k -> LoopDocs] : k \in 0..MaxLoopBatch }

\* the callers of the batch operations: two threads that share the program
Callers == {"a", "b"}

\* the local variables of run / preprocess_texts_to_string: texts, the
\* number of docs the generator nlp.pipe(texts) has yielded, and out
IdleFrame == [pc |-> "idle", texts |-> <<>>, it |-> 0, out |-> <<>>]

\* no call of a batch operation is running
AllIdle == \A c \in Callers : frames[c].pc = "idle"

\* the next doc of the generator nlp.pipe(texts, ...) with n_process = 1: the
\* doc of the next text, in the order of texts
pipe_next(texts, it) == texts[it + 1]

\* the result is put in front of the list
out_append_front(out, x) == <<x>> \o out

\* out.append(s)
out_append(out, x) == Append(out, x)

-----------------------------------------------------------------------------
(* The state machine                                                       *)

Init ==
  /\ variant = "none"
  /\ stop_words = {}
  /\ config = NoValue
  /\ STOPWORDS = {}
  /\ EXTRA_LEMMAS = <<>>
  /\ STOP_ES_NOACC = {}
  /\ NEG_KEEP_BASE = {}
  /\ op = "none"
  /\ tok = NoToken
  /\ doc = NoValue
  /\ ret = NoValue
  /\ frames = [c \in Callers |-> IdleFrame]
  /\ raised = "none"

fields == <<variant, stop_words, config, STOPWORDS, EXTRA_LEMMAS, STOP_ES_NOACC,
            NEG_KEEP_BASE>>

\* SentencePreproc.__init__; an exception of _set_extra_lemmas leaves
\* __init__, and no instance is returned
SentencePreproc_init ==
  /\ variant = "none"
  /\ \E sw \in StopWordChoices, extra \in ExtraStopChoices, y \in YamlLemmas :
       LET cfg == [stopwords |-> extra, lemmas |-> lemmas_items(y), lemmas_yaml |-> y]
           err == _set_extra_lemmas_raises(y)
       IN  /\ stop_words' = sw
           /\ config' = cfg
           /\ raised' = err
           /\ IF err = "none"
              THEN /\ STOPWORDS' = _set_extra_stopwords(sw, cfg)
                   /\ EXTRA_LEMMAS' = _set_extra_lemmas(cfg)
                   /\ variant' = "SentencePreproc"
              ELSE /\ UNCHANGED <<STOPWORDS, EXTRA_LEMMAS>>
                   /\ variant' = "failed"
  /\ UNCHANGED <<STOP_ES_NOACC, NEG_KEEP_BASE, op, tok, doc, ret, frames>>

\* import of NLP_sentence_preproc (lines 9-34)
NLP_sentence_preproc_import ==
  /\ variant = "none"
  /\ \E sw \in StopWordChoices :
       /\ stop_words' = sw
       /\ STOPWORDS' = stopwords(sw)
  /\ variant' = "NLP_sentence_preproc"
  /\ UNCHANGED <<config, EXTRA_LEMMAS, STOP_ES_NOACC, NEG_KEEP_BASE, op, tok, doc, ret, frames, raised>>

\* SentencePreprocTransformer.__init__
SentencePreprocTransformer_init ==
  /\ variant = "none"
  /\ \E sw \in StopWordChoices, negative \in NegativeChoices :
       LET cfg == [negative |-> negative]
       IN  /\ stop_words' = sw
           /\ config' = cfg
           /\ STOP_ES_NOACC' = STOP_ES_NOACC_of(sw)
           /\ NEG_KEEP_BASE' = _set_negative_words(cfg)
  /\ variant' = "SentencePreprocTransformer"
  /\ UNCHANGED <<STOPWORDS, EXTRA_LEMMAS, op, tok, doc, ret, frames, raised>>

\* import of NLP_sentence_preproc_trf (lines 14-49)
NLP_sentence_preproc_trf_import ==
  /\ variant = "none"
  /\ \E sw \in StopWordChoices :
       /\ stop_words' = sw
       /\ STOP_ES_NOACC' = STOP_ES_NOACC_of(sw)
  /\ NEG_KEEP_BASE' = NEG_KEEP_BASE_script
  /\ variant' = "NLP_sentence_preproc_trf"
  /\ UNCHANGED <<config, STOPWORDS, EXTRA_LEMMAS, op, tok, doc, ret, frames, raised>>

\* SentencePreproc._extra_lemmas(tok)
Call__extra_lemmas ==
  /\ op = "none"
  /\ AllIdle
  /\ variant = "SentencePreproc"
  /\ \E t \in TokensLG :
       /\ tok' = t
       /\ ret' = _extra_lemmas(t)
  /\ op' = "_extra_lemmas"
  /\ doc' = NoValue
  /\ UNCHANGED <<fields, frames, raised>>

\* lemma_with_overrides(tok) of NLP_sentence_preproc
Call_lemma_with_overrides ==
  /\ op = "none"
  /\ AllIdle
  /\ variant = "NLP_sentence_preproc"
  /\ \E t \in TokensOverridesMX :
       /\ tok' = t
       /\ ret' = lemma_with_overrides(t)
  /\ op' = "lemma_with_overrides"
  /\ doc' = NoValue
  /\ UNCHANGED <<fields, frames, raised>>

\* SentencePreproc.run(text); the tokenizer made doc of text
Call_SentencePreproc_run ==
  /\ op = "none"
  /\ AllIdle
  /\ variant = "SentencePreproc"
  /\ \E d \in DocsLG :
       /\ doc' = d
       /\ ret' = SentencePreproc_run(d)
  /\ op' = "SentencePreproc.run"
  /\ tok' = NoToken
  /\ UNCHANGED <<fields, frames, raised>>

\* preprocess(text) of NLP_sentence_preproc
Call_preprocess ==
  /\ op = "none"
  /\ AllIdle
  /\ variant = "NLP_sentence_preproc"
  /\ \E d \in DocsLG :
       /\ doc' = d
       /\ ret' = preprocess(d)
  /\ op' = "preprocess"
  /\ tok' = NoToken
  /\ UNCHANGED <<fields, frames, raised>>

\* SentencePreprocTransformer._normalize_token(tok)
Call__normalize_token ==
  /\ op = "none"
  /\ AllIdle
  /\ variant = "SentencePreprocTransformer"
  /\ \E t \in TokensTRF :
       /\ tok' = t
       /\ ret' = _normalize_token(t)
  /\ op' = "_normalize_token"
  /\ doc' = NoValue
  /\ UNCHANGED <<fields, frames, raised>>

\* normalize_token(tok) of NLP_sentence_preproc_trf
Call_normalize_token ==
  /\ op = "none"
  /\ AllIdle
  /\ variant = "NLP_sentence_preproc_trf"
  /\ \E t \in TokensTRF :
       /\ tok' = t
       /\ ret' = normalize_token(t)
  /\ op' = "normalize_token"
  /\ doc' = NoValue
  /\ UNCHANGED <<fields, frames, raised>>

\* SentencePreprocTransformer.run(texts); doc is the docs of the texts
Call_SentencePreprocTransformer_run ==
  /\ op = "none"
  /\ AllIdle
  /\ variant = "SentencePreprocTransformer"
  /\ \E b \in Batches :
       /\ doc' = b
       /\ ret' = SentencePreprocTransformer_run(b)
  /\ op' = "SentencePreprocTransformer.run"
  /\ tok' = NoToken
  /\ UNCHANGED <<fields, frames, raised>>

\* preprocess_texts_to_string(texts) of NLP_sentence_preproc_trf
Call_preprocess_texts_to_string ==
  /\ op = "none"
  /\ AllIdle
  /\ variant = "NLP_sentence_preproc_trf"
  /\ \E b \in Batches :
       /\ doc' = b
       /\ ret' = preprocess_texts_to_string(b)
  /\ op' = "preprocess_texts_to_string"
  /\ tok' = NoToken
  /\ UNCHANGED <<fields, frames, raised>>

\* SentencePreprocTransformer._strip_accents(s)
Call__strip_accents ==
  /\ op = "none"
  /\ AllIdle
  /\ \E x \in FoldTexts :
       /\ doc' = x
       /\ ret' = strip_accents(x)
  /\ op' = "_strip_accents"
  /\ tok' = NoToken
  /\ UNCHANGED <<fields, frames, raised>>

\* strip_accents(s) of NLP_sentence_preproc_trf
Call_strip_accents ==
  /\ op = "none"
  /\ AllIdle
  /\ \E x \in FoldTexts :
       /\ doc' = x
       /\ ret' = strip_accents(x)
  /\ op' = "strip_accents"
  /\ tok' = NoToken
  /\ UNCHANGED <<fields, frames, raised>>

\* SentencePreprocTransformer._is_numeric_token(tok)
Call__is_numeric_token ==
  /\ op = "none"
  /\ AllIdle
  /\ \E t \in NumTokens :
       /\ tok' = t
       /\ ret' = _is_numeric_token(t)
  /\ op' = "_is_numeric_token"
  /\ doc' = NoValue
  /\ UNCHANGED <<fields, frames, raised>>

\* is_numeric_token(tok) of NLP_sentence_preproc_trf
Call_is_numeric_token ==
  /\ op = "none"
  /\ AllIdle
  /\ \E t \in NumTokens :
       /\ tok' = t
       /\ ret' = is_numeric_token(t)
  /\ op' = "is_numeric_token"
  /\ doc' = NoValue
  /\ UNCHANGED <<fields, frames, raised>>

\* SentencePreprocTransformer.run(texts), entered by caller c: out = []
SentencePreprocTransformer_run_call(c) ==
  /\ op = "none"
  /\ variant = "SentencePreprocTransformer"
  /\ frames[c].pc = "idle"
  /\ \E b \in LoopBatches :
       frames' = [frames EXCEPT ![c] = [pc |-> "for", texts |-> b, it |-> 0, out |-> <<>>]]
  /\ UNCHANGED <<fields, op, tok, doc, ret, raised>>

\* the loop takes each text off the list the caller passed
SentencePreprocTransformer_run_next_consuming(c) ==
  /\ op = "none"
  /\ variant = "SentencePreprocTransformer"
  /\ frames[c].pc = "for"
  /\ frames[c].texts # <<>>
  /\ LET d == Head(frames[c].texts)
     IN  frames' = [frames EXCEPT ![c].texts = Tail(@),
                                  ![c].out = out_append(@, run_doc(d))]
  /\ UNCHANGED <<fields, op, tok, doc, ret, raised>>

\* one iteration of its for loop
SentencePreprocTransformer_run_next(c) ==
  /\ op = "none"
  /\ variant = "SentencePreprocTransformer"
  /\ frames[c].pc = "for"
  /\ frames[c].it < Len(frames[c].texts)
  /\ LET d == pipe_next(frames[c].texts, frames[c].it)
     IN  frames' = [frames EXCEPT ![c].it = @ + 1,
                                  ![c].out = out_append(@, run_doc(d))]
  /\ UNCHANGED <<fields, op, tok, doc, ret, raised>>

\* the generator is exhausted: return out
SentencePreprocTransformer_run_return(c) ==
  /\ op = "none"
  /\ variant = "SentencePreprocTransformer"
  /\ frames[c].pc = "for"
  /\ frames[c].it = Len(frames[c].texts)
  /\ op' = "SentencePreprocTransformer.run"
  /\ doc' = frames[c].texts
  /\ ret' = frames[c].out
  /\ tok' = NoToken
  /\ frames' = [frames EXCEPT ![c] = IdleFrame]
  /\ UNCHANGED <<fields, raised>>

\* preprocess_texts_to_string(texts), entered by caller c: out = []
preprocess_texts_to_string_call(c) ==
  /\ op = "none"
  /\ variant = "NLP_sentence_preproc_trf"
  /\ frames[c].pc = "idle"
  /\ \E b \in LoopBatches :
       frames' = [frames EXCEPT ![c] = [pc |-> "for", texts |-> b, it |-> 0, out |-> <<>>]]
  /\ UNCHANGED <<fields, op, tok, doc, ret, raised>>

\* one iteration of its for loop
preprocess_texts_to_string_next(c) ==
  /\ op = "none"
  /\ variant = "NLP_sentence_preproc_trf"
  /\ frames[c].pc = "for"
  /\ frames[c].it < Len(frames[c].texts)
  /\ LET d == pipe_next(frames[c].texts, frames[c].it)
     IN  frames' = [frames EXCEPT ![c].it = @ + 1,
                                  ![c].out = out_append(@, preprocess_doc(d))]
  /\ UNCHANGED <<fields, op, tok, doc, ret, raised>>

\* the generator is exhausted: return out
preprocess_texts_to_string_return(c) ==
  /\ op = "none"
  /\ variant = "NLP_sentence_preproc_trf"
  /\ frames[c].pc = "for"
  /\ frames[c].it = Len(frames[c].texts)
  /\ op' = "preprocess_texts_to_string"
  /\ doc' = frames[c].texts
  /\ ret' = frames[c].out
  /\ tok' = NoToken
  /\ frames' = [frames EXCEPT ![c] = IdleFrame]
  /\ UNCHANGED <<fields, raised>>

\* the caller has the result; the program waits for the next call
Return ==
  /\ op # "none"
  /\ op' = "none"
  /\ tok' = NoToken
  /\ doc' = NoValue
  /\ ret' = NoValue
  /\ UNCHANGED <<fields, frames, raised>>

Next ==
  \/ SentencePreproc_init
  \/ NLP_sentence_preproc_import
  \/ SentencePreprocTransformer_init
  \/ NLP_sentence_preproc_trf_import
  \/ Call__extra_lemmas
  \/ Call_lemma_with_overrides
  \/ Call_SentencePreproc_run
  \/ Call_preprocess
  \/ Call__normalize_token
  \/ Call_normalize_token
  \/ Call_SentencePreprocTransformer_run
  \/ Call_preprocess_texts_to_string
  \/ \E c \in Callers : SentencePreprocTransformer_run_call(c)
  \/ \E c \in Callers : SentencePreprocTransformer_run_next(c)
  \/ \E c \in Callers : SentencePreprocTransformer_run_return(c)
  \/ \E c \in Callers : preprocess_texts_to_string_call(c)
  \/ \E c \in Callers : preprocess_texts_to_string_next(c)
  \/ \E c \in Callers : preprocess_texts_to_string_return(c)
  \/ Return

\* the four programs, each started once and then called any number of times
Spec == Init /\ [][Next]_vars

NextNum == Call__is_numeric_token \/ Call_is_numeric_token \/ Return

\* the numeric classifier on its own (it reads no field of the pipeline)
SpecNum == Init /\ [][NextNum]_vars

NextFold == Call__strip_accents \/ Call_strip_accents \/ Return

\* the accent folder on its own (it reads no field of the pipeline)
SpecFold == Init /\ [][NextFold]_vars

-----------------------------------------------------------------------------
(* Properties                                                              *)

\* The numeric grammar as the specification words it, on the whole text.
IsInteger(s) == s # <<>> /\ \A i \in 1..Len(s) : IsDigit(s[i])

IsDecimal(s) ==
  \E k \in 2..(Len(s) - 1) :
    /\ s[k] \in {46, 44}
    /\ IsInteger(SubSeq(s, 1, k - 1))
    /\ IsInteger(SubSeq(s, k + 1, Len(s)))

IsSignedInteger(s) ==
  IsInteger(s) \/ (Len(s) >= 2 /\ s[1] \in {43, 45} /\ IsInteger(Tail(s)))

IsScientific(s) ==
  \E k \in 2..(Len(s) - 1) :
    /\ s[k] \in {101, 69}
    /\ (IsInteger(SubSeq(s, 1, k - 1)) \/ IsDecimal(SubSeq(s, 1, k - 1)))
    /\ IsSignedInteger(SubSeq(s, k + 1, Len(s)))

IsNumber(s) == IsInteger(s) \/ IsDecimal(s) \/ IsScientific(s)

IsNumberWith(s, x) ==
  /\ Len(s) > Len(x)
  /\ SubSeq(s, Len(s) - Len(x) + 1, Len(s)) = x
  /\ IsNumber(SubSeq(s, 1, Len(s) - Len(x)))

IsSimpleFraction(s) ==
  \E k \in 2..(Len(s) - 1) :
    /\ s[k] = 47
    /\ IsInteger(SubSeq(s, 1, k - 1))
    /\ IsInteger(SubSeq(s, k + 1, Len(s)))

HasDigit(s) == \E i \in 1..Len(s) : IsDigit(s[i])

NumericOps == {"_is_numeric_token", "is_numeric_token"}

\* C3: is_numeric is true when the tokenizer's numeric flag is true, and when
\* the whole text is an integer, a decimal with . or , as separator, either
\* with an e/E exponent of optional sign, any of these followed by %, or two
\* integers separated by /; it is false when the flag is false and the text
\* has no digit.
C3_NumericGrammarAccepted ==
  op \in NumericOps =>
    /\ tok.like_num => ret = TRUE
    /\ (IsNumber(tok.text) \/ IsNumberWith(tok.text, <<37>>)
          \/ IsSimpleFraction(tok.text)) => ret = TRUE
    /\ (~tok.like_num /\ ~HasDigit(tok.text)) => ret = FALSE

\* 12,3e-3% is classified numeric by the class, with like_num false
C3_Witness ==
  /\ op = "_is_numeric_token"
  /\ tok.text = <<49,50,44,51,101,45,51,37>>
  /\ ~tok.like_num
  /\ ret = TRUE

\* C4: with the numeric flag false, is_numeric is true only if the entire
\* text matches the grammar; a text with any extra character before, inside
\* or after a match is rejected.
C4_WholeTextAnchored ==
  (op \in NumericOps /\ ~tok.like_num /\ ret = TRUE) =>
    \/ IsNumber(tok.text)
    \/ \E x \in NUM_PAT_SUFFIXES : IsNumberWith(tok.text, x)
    \/ IsSimpleFraction(tok.text)

\* C5: in every program, a number followed by one of % per-mille
\* per-ten-thousand /% is numeric although the numeric flag is false.
C5_PercentFamilySuffixes ==
  (op \in NumericOps /\ \E x \in NUM_PAT_SUFFIXES : IsNumberWith(tok.text, x))
    => ret = TRUE


-----------------------------------------------------------------------------
(* Properties of the pipelines                                             *)

TokenOpsTRF == {"_normalize_token", "normalize_token"}

\* is_numeric as the program of the call computes it
NumericBy(o, t) ==
  IF o = "_normalize_token" THEN _is_numeric_token(t) ELSE is_numeric_token(t)

\* a token the transformer programs neither keep as a number nor skip as
\* punctuation or space
WordToken(o, t) == ~NumericBy(o, t) /\ ~t.is_space /\ ~t.is_punct

\* the form the transformer programs compare: lowercased, accent-folded
Folded(s) == strip_accents(lower(s))

\* C1 as claimed: a token whose lowercased, accent-folded surface form is in
\* negation_keep is kept in the output, never dropped as a stopword (here for
\* the tokens that are neither numeric nor punctuation or space and have a
\* lemma).
C1_NegationSurfaceKept ==
  (/\ op \in TokenOpsTRF
   /\ WordToken(op, tok)
   /\ tok.lemma_ # <<>>
   /\ Folded(tok.text) \in NEG_KEEP_BASE)
    => ret # <<>>

\* C1 as amended: in the transformer programs negation_keep is compared with
\* the lowercased, accent-folded lemma of the token, not with its surface
\* form; a token that is neither numeric nor punctuation or space, whose
\* folded lemma is non-empty and in negation_keep, is kept with the folded
\* lemma as its output, also when that form is in stopwords.
C1_NegationLemmaKept ==
  (/\ op \in TokenOpsTRF
   /\ WordToken(op, tok)
   /\ Folded(tok.lemma_) # <<>>
   /\ Folded(tok.lemma_) \in NEG_KEEP_BASE)
    => (ret = Folded(tok.lemma_) /\ ret # <<>>)

\* Ningún, lemma Ningún, with ningun both a stopword and a negation term
C1_Witness ==
  /\ op = "_normalize_token"
  /\ WordToken(op, tok)
  /\ tok.lemma_ = W_Ningun
  /\ W_ningun_noacc \in STOP_ES_NOACC
  /\ W_ningun_noacc \in NEG_KEEP_BASE
  /\ ret = W_ningun_noacc

\* C2 as claimed: a token whose lowercased text is "no" is never dropped as a
\* stopword, in any program (the stopword set never contains "no").
C2_NoNeverDropped ==
  (/\ op \in TokenOpsTRF
   /\ WordToken(op, tok)
   /\ lower(tok.text) = W_no
   /\ lower(tok.lemma_) = W_no)
    => (ret # <<>> /\ W_no \notin STOP_ES_NOACC)

\* the tokens of d that are alphabetic and whose lowercased text is "no"
NoTokens(d) == { i \in DOMAIN d : d[i].is_alpha /\ lower(d[i].text) = W_no }

\* C2 as amended: in SentencePreproc and NLP_sentence_preproc the stopword set
\* never contains "no", whatever the default vocabulary and the extra
\* stopwords (in any letter case), and every alphabetic token whose lowercased
\* text is "no" is kept.  The transformer programs leave "no" in their
\* stopword set when the default vocabulary has it; there a word token with
\* lemma "no" is kept exactly when "no" is no stopword or is in negation_keep.
C2_NoExcludedFromStopwords ==
  /\ variant \in {"SentencePreproc", "NLP_sentence_preproc"} => W_no \notin STOPWORDS
  /\ op \in {"SentencePreproc.run", "preprocess"} =>
       Len(ret) >= Cardinality(NoTokens(doc))
  /\ variant \in {"SentencePreprocTransformer", "NLP_sentence_preproc_trf"} =>
       (W_no \in STOP_ES_NOACC <=> \E w \in stop_words : Folded(w) = W_no)
  /\ (op \in TokenOpsTRF /\ WordToken(op, tok) /\ lower(tok.lemma_) = W_no) =>
       (ret # <<>> <=> (W_no \notin STOP_ES_NOACC \/ W_no \in NEG_KEEP_BASE))

\* spaCy lists no, the YAML lists NO, and SentencePreproc.run keeps No
C2_Witness ==
  /\ variant = "SentencePreproc"
  /\ W_no \in stop_words
  /\ W_NO \in config.stopwords
  /\ op = "SentencePreproc.run"
  /\ doc = <<T_La, T_No>>
  /\ ret = <<W_no>>

\* C6: when the lowercased surface text is a key of lemma_overrides, resolve
\* returns the mapped canonical lemma whatever the pos tag and the lemma of
\* the token are.
C6_OverridePrecedence ==
  /\ (op = "_extra_lemmas" /\ lower(tok.text) \in DOMAIN EXTRA_LEMMAS) =>
       ret = EXTRA_LEMMAS[lower(tok.text)]
  /\ (op = "lemma_with_overrides" /\ lower(tok.text) \in DOMAIN LEMMA_OVERRIDES_ES_MX) =>
       ret = LEMMA_OVERRIDES_ES_MX[lower(tok.text)]

\* the verb Es with lemma Ser resolves to the configured estar
C6_Witness ==
  /\ op = "_extra_lemmas"
  /\ tok.text = W_Es
  /\ tok.pos_ = "VERB"
  /\ tok.lemma_ = W_Ser
  /\ config.lemmas = << <<W_estar, <<W_es>>>> >>
  /\ ret = W_estar

\* C7 as claimed: for every token with a non-empty text and every
\* configuration, resolve returns a non-empty string.
C7_ResolveNonEmpty ==
  (op \in {"_extra_lemmas", "lemma_with_overrides"} /\ tok.text # <<>>) => ret # <<>>

\* C7 as amended: resolve returns the override value if the lowercased text
\* is an override key, else the lowercased lemma if that is non-empty, else
\* the lowercased text; the result is non-empty unless it is the value of an
\* override whose configured canonical lemma is the empty string.
C7_ResolveNonEmptyUnlessEmptyOverride ==
  /\ op = "_extra_lemmas" =>
       /\ (\A n \in DOMAIN config.lemmas : config.lemmas[n][1] # <<>>) => ret # <<>>
       /\ lower(tok.text) \notin DOMAIN EXTRA_LEMMAS =>
            /\ ret # <<>>
            /\ ret = lower(ret)
            /\ ret \in {lower(tok.lemma_), lower(tok.text)}
            /\ (ret = lower(tok.text)) \/ (tok.lemma_ # <<>>)
  /\ op = "lemma_with_overrides" =>
       /\ ret # <<>>
       /\ lower(tok.text) \notin DOMAIN LEMMA_OVERRIDES_ES_MX =>
            /\ ret \in {lower(tok.lemma_), lower(tok.text)}
            /\ (ret = lower(tok.text)) \/ (tok.lemma_ # <<>>)

\* Agua with an empty lemma and no override resolves to agua
C7_Witness ==
  /\ op = "_extra_lemmas"
  /\ tok.text = W_Agua
  /\ tok.lemma_ = <<>>
  /\ ret = W_agua

\* the items of config.lemmas that list the surface form j
Listing(j) ==
  { n \in DOMAIN config.lemmas :
      \E m \in DOMAIN config.lemmas[n][2] : config.lemmas[n][2][m] = j }

ListedForms ==
  UNION { { config.lemmas[n][2][m] : m \in DOMAIN config.lemmas[n][2] }
          : n \in DOMAIN config.lemmas }

\* C8: lemma_overrides inverts the table; a surface form listed under two
\* canonical lemmas maps to the one declared later in the iteration order.
C8_LastWriteWins ==
  variant = "SentencePreproc" =>
    /\ DOMAIN EXTRA_LEMMAS = ListedForms
    /\ \A j \in ListedForms :
         \A n \in Listing(j) :
           (\A n2 \in Listing(j) : n2 <= n) => EXTRA_LEMMAS[j] = config.lemmas[n][1]

\* es is listed under ser and then under estar
C8_Witness ==
  /\ variant = "SentencePreproc"
  /\ config.lemmas = << <<W_ser, <<W_es>>>>, <<W_estar, <<W_es>>>> >>
  /\ EXTRA_LEMMAS[W_es] = W_estar

\* C9 as claimed: for every configured negation term n, accented or not, in
\* any case, a word token whose lowercased, accent-folded form equals the
\* lowercased, accent-folded n is never dropped.
C9_NegationTermsFolded ==
  (/\ op \in TokenOpsTRF
   /\ WordToken(op, tok)
   /\ Folded(tok.lemma_) # <<>>
   /\ Folded(tok.text) = Folded(tok.lemma_)
   /\ \E n \in NEG_KEEP_BASE : Folded(n) = Folded(tok.lemma_))
    => ret # <<>>

\* C9 as amended: accent folding (and lowercasing) is applied to the lemma of
\* the token only; the negation terms are compared as they are configured.
\* A word token whose folded lemma equals a configured term that is itself
\* lowercase and accent-free is never dropped; a configured term that is
\* accented protects nothing: a token whose folded lemma is a stopword and
\* differs from every configured term as written is dropped.
C9_NegationTermsAsConfigured ==
  /\ variant = "SentencePreprocTransformer" => NEG_KEEP_BASE = config.negative
  /\ variant = "NLP_sentence_preproc_trf" => NEG_KEEP_BASE = NEG_KEEP_BASE_script
  /\ (op \in TokenOpsTRF /\ WordToken(op, tok)) =>
       \A n \in NEG_KEEP_BASE :
         /\ (n # <<>> /\ n = Folded(n) /\ Folded(tok.lemma_) = n) => ret = n
         /\ (/\ Folded(tok.lemma_) = Folded(n)
             /\ Folded(tok.lemma_) \notin NEG_KEEP_BASE
             /\ Folded(tok.lemma_) \in STOP_ES_NOACC) => ret = <<>>

\* the configured ningun keeps Ningún, whose folded lemma is a stopword
C9_Witness ==
  /\ op = "_normalize_token"
  /\ WordToken(op, tok)
  /\ tok.text = W_Ningun
  /\ tok.lemma_ = W_Ningun
  /\ config.negative = {W_ningun_noacc}
  /\ W_ningun_noacc \in STOP_ES_NOACC
  /\ ret = W_ningun_noacc

\* the number of elements of K that are at most i
Rank(K, i) == Cardinality({ k \in K : k <= i })

\* out is the outputs of exactly the tokens K of d, one each, in their order
OutputsOfKept(out, d, K, F(_)) ==
  /\ Len(out) = Cardinality(K)
  /\ \A i \in K : out[Rank(K, i)] = F(d[i])

\* the words of the outputs outs, output after output
RECURSIVE Words(_)
Words(outs) == IF outs = <<>> THEN <<>> ELSE split(Head(outs)) \o Words(Tail(outs))

\* the tokens SentencePreproc.run keeps
KeptLG(d) == { i \in DOMAIN d : d[i].is_alpha /\ lower(d[i].text) \notin STOPWORDS }

\* the tokens preprocess keeps
KeptScript(d) ==
  { i \in DOMAIN d : d[i].is_alpha /\
                     (lower(d[i].text) = W_no \/ lower(d[i].text) \notin STOPWORDS) }

-----------------------------------------------------------------------------
(* Properties of the batch operations                                      *)

BatchOps == {"SentencePreprocTransformer.run", "preprocess_texts_to_string"}

\* the document the running program returns for the one text whose doc is d
NormalizationOf(d) ==
  IF variant = "SentencePreprocTransformer"
  THEN SentencePreprocTransformer_run(<<d>>)[1]
  ELSE preprocess_texts_to_string(<<d>>)[1]

\* C11: a batch operation returns a list of exactly N documents for N texts
\* and result[i] is the normalization of input[i]; no document is dropped,
\* duplicated or reordered, whatever the other running calls do.  While the
\* loop runs, out holds the documents of the texts read so far, in order.
C11_BatchOrder ==
  /\ op \in BatchOps =>
       /\ Len(ret) = Len(doc)
       /\ \A i \in DOMAIN doc : ret[i] = NormalizationOf(doc[i])
  /\ \A c \in Callers :
       frames[c].pc = "for" =>
         /\ Len(frames[c].out) = frames[c].it
         /\ frames[c].it <= Len(frames[c].texts)
         /\ \A i \in 1..frames[c].it :
              frames[c].out[i] = NormalizationOf(frames[c].texts[i])

\* a returns "mama no" and "" for "La mamá No" and "", while b is in its loop
C11_Witness ==
  /\ op = "SentencePreprocTransformer.run"
  /\ doc = << <<T_La, T_mama, T_No>>, <<>> >>
  /\ ret = << W_mama_noacc \o SPACE \o W_no, <<>> >>
  /\ frames["a"].pc = "idle"
  /\ frames["b"].pc = "for"
  /\ frames["b"].it = 1
  /\ Len(frames["b"].texts) = 2

\* C12: empty inputs are valid: an empty token sequence yields the
\* empty-string document, which still has its position in the result of a
\* batch, and an empty batch yields the empty list.
C12_EmptyInputs ==
  /\ op \in BatchOps =>
       /\ doc = <<>> => ret = <<>>
       /\ \A n \in DOMAIN doc : doc[n] = <<>> => (n \in DOMAIN ret /\ ret[n] = <<>>)
  /\ (op \in {"SentencePreproc.run", "preprocess"} /\ doc = <<>>) => ret = <<>>

\* the batch of "" and "mamá" gives "" and "mama"
C12_Witness ==
  /\ op = "SentencePreprocTransformer.run"
  /\ doc = << <<>>, <<T_mama>> >>
  /\ ret = << <<>>, W_mama_noacc >>

-----------------------------------------------------------------------------
(* Properties of the construction                                          *)

\* C13 as claimed: constructing the pipeline with a null or missing lemmas
\* collection, or a malformed lemma table, raises an error at construction
\* time and leaves no pipeline that could be used.
C13_ConfigurationFailFast ==
  (variant \in {"SentencePreproc", "failed"} /\ config.lemmas_yaml.kind # "dict")
    => (variant = "failed" /\ raised # "none")

\* C13 as amended: SentencePreproc() with no lemmas, a null lemmas or a
\* lemmas that is a list raises AttributeError, and with a lemma whose
\* variants are a number or null raises TypeError, out of __init__, before
\* any token is processed, and no instance exists afterwards.  A lemma whose
\* variants are a str raises nothing: each character of the str becomes an
\* override key.
C13_FailFastOnUnreadableLemmas ==
  /\ variant \in {"SentencePreproc", "failed"} =>
       LET y == config.lemmas_yaml
       IN  /\ y.kind \in {"missing", "None", "list"} =>
                (variant = "failed" /\ raised = "AttributeError")
           /\ y.kind \in {"dict_int", "dict_None"} =>
                (variant = "failed" /\ raised = "TypeError")
           /\ y.kind = "dict_str" =>
                /\ variant = "SentencePreproc"
                /\ raised = "none"
                /\ DOMAIN EXTRA_LEMMAS = { <<y.value[n]>> : n \in DOMAIN y.value }
                /\ \A j \in DOMAIN EXTRA_LEMMAS : EXTRA_LEMMAS[j] = y.key
           /\ y.kind = "dict" => (variant = "SentencePreproc" /\ raised = "none")
  /\ variant = "failed" =>
       (op = "none" /\ AllIdle /\ STOPWORDS = {} /\ EXTRA_LEMMAS = <<>>)
  /\ variant \notin {"SentencePreproc", "failed"} => raised = "none"

\* a null lemmas: the construction has raised AttributeError
C13_Witness ==
  /\ variant = "failed"
  /\ config.lemmas_yaml.kind = "None"
  /\ raised = "AttributeError"

-----------------------------------------------------------------------------
(* Properties of the accent folder                                         *)

FoldOps == {"_strip_accents", "strip_accents"}

IsMark(c) == IsMn(c) \/ IsMcMe(c)

\* C15: fold(s) holds no combining mark of any kind: it is the canonical
\* decomposition of s without its combining marks, the base characters in
\* their order and in their letter case.
C15_NoCombiningMarks ==
  op \in FoldOps =>
    /\ \A i \in DOMAIN ret : ~IsMark(ret[i])
    /\ ret = SelectSeq(NFD(doc), LAMBDA ch : ~IsMark(ch))

-----------------------------------------------------------------------------
(* Frame properties                                                        *)

\* what the running program returns for the docs b when nothing else runs
SequentialRun(b) ==
  IF variant = "SentencePreprocTransformer"
  THEN SentencePreprocTransformer_run(b)
  ELSE preprocess_texts_to_string(b)

\* C16: after construction no call changes the configuration of the pipeline
\* (the stopwords, the lemma overrides, the negation terms) or the tokens it
\* was given; a running call changes only its own out, by the document of
\* its next text; hence a batch call interleaved with other calls returns
\* what it returns when run alone.
C16_NoMutation ==
  [][ /\ variant # "none" => fields' = fields
      /\ \A c \in Callers :
           (frames[c].pc = "for" /\ frames'[c].pc = "for") =>
             /\ frames'[c].texts = frames[c].texts
             /\ \/ frames'[c] = frames[c]
                \/ /\ frames'[c].it = frames[c].it + 1
                   /\ frames'[c].out =
                        Append(frames[c].out,
                               NormalizationOf(frames[c].texts[frames[c].it + 1]))
      /\ (op = "none" /\ op' \in BatchOps) => ret' = SequentialRun(doc')
    ]_vars

\* both callers are in the loop, each with one of its two texts done
C16_Witness ==
  /\ variant = "SentencePreprocTransformer"
  /\ frames["a"].pc = "for" /\ frames["a"].it = 1 /\ Len(frames["a"].texts) = 2
  /\ frames["b"].pc = "for" /\ frames["b"].it = 1 /\ Len(frames["b"].texts) = 2
  /\ frames["a"].texts # frames["b"].texts

-----------------------------------------------------------------------------
(* Properties of the normalized document                                   *)

\* s.split(" "), with no piece for the empty string: the pieces of s between
\* single spaces; piece is the piece being read
RECURSIVE SplitOnSpaceFrom(_, _)
SplitOnSpaceFrom(s, piece) ==
  IF s = <<>> THEN <<piece>>
  ELSE IF Head(s) = 32 THEN <<piece>> \o SplitOnSpaceFrom(Tail(s), <<>>)
  ELSE SplitOnSpaceFrom(Tail(s), Append(piece, Head(s)))

SplitOnSpace(s) == IF s = <<>> THEN <<>> ELSE SplitOnSpaceFrom(s, <<>>)

\* the non-empty outputs of the tokens of the doc d, in the running program
KeptOutputs(d) ==
  SelectSeq([i \in DOMAIN d |->
               IF variant = "SentencePreprocTransformer"
               THEN _normalize_token(d[i]) ELSE normalize_token(d[i])],
            LAMBDA x : x # <<>>)

HasSpace(x) == \E i \in DOMAIN x : isspace(x[i])

\* s has no whitespace at either end and no two whitespace characters in a row
SingleSpaced(s) ==
  /\ s # <<>> => (~isspace(s[1]) /\ ~isspace(s[Len(s)]))
  /\ \A i \in 1..(Len(s) - 1) : ~(isspace(s[i]) /\ isspace(s[i + 1]))

\* C17 as claimed: every normalized document is its kept tokens joined by
\* exactly one space: no whitespace at the ends, no run of two or more
\* whitespace characters, and splitting it on single spaces gives back
\* exactly the kept token outputs, same count and same order.
C17_SingleSpaceJoin ==
  op \in BatchOps =>
    \A n \in DOMAIN doc :
      /\ SingleSpaced(ret[n])
      /\ SplitOnSpace(ret[n]) = KeptOutputs(doc[n])

\* C17 as amended: every document of the transformer programs has no
\* whitespace at the ends, no run of two or more whitespace characters and no
\* whitespace other than the space; split on single spaces it gives the
\* words of the kept outputs in order, each non-empty.  That is the kept
\* outputs themselves when none of them contains whitespace; a kept output
\* with whitespace inside (the lemma "de el") gives one piece per word.
C17_WhitespaceNormalized ==
  op \in BatchOps =>
    \A n \in DOMAIN doc :
      /\ SingleSpaced(ret[n])
      /\ \A i \in DOMAIN ret[n] : isspace(ret[n][i]) => ret[n][i] = 32
      /\ SplitOnSpace(ret[n]) = Words(KeptOutputs(doc[n]))
      /\ \A i \in DOMAIN SplitOnSpace(ret[n]) : SplitOnSpace(ret[n])[i] # <<>>
      /\ (\A i \in DOMAIN KeptOutputs(doc[n]) : ~HasSpace(KeptOutputs(doc[n])[i]))
           => SplitOnSpace(ret[n]) = KeptOutputs(doc[n])

\* "La Del": la is dropped and the one kept output "de el" gives two words
C17_Witness ==
  /\ op = "SentencePreprocTransformer.run"
  /\ doc = << <<T_La, T_Del>> >>
  /\ ret = << W_de_el >>

-----------------------------------------------------------------------------
(* Properties of the classification of one token                           *)

\* the lemma of t, lowercased and folded
FoldedLemma(t) == strip_accents(lower(t.lemma_))

\* the disposition of t under the operation o, by the tests of the code in
\* their order; a token whose folded lemma is empty is SKIP
Disposition(o, t) ==
  IF NumericBy(o, t) THEN "NUMERIC"
  ELSE IF t.is_space \/ t.is_punct THEN "SKIP"
  ELSE IF FoldedLemma(t) = <<>> THEN "SKIP"
  ELSE IF FoldedLemma(t) \in NEG_KEEP_BASE THEN "NEGATION"
  ELSE IF FoldedLemma(t) \in STOP_ES_NOACC THEN "STOPWORD"
  ELSE "CONTENT"

\* C18: the classification of a well-formed token raises nothing and the
\* output is empty exactly for SKIP and STOPWORD and non-empty for NUMERIC,
\* NEGATION and CONTENT: the text or the placeholder for NUMERIC, the folded
\* lemma for NEGATION and CONTENT.
C18_DispositionDecidesOutput ==
  op \in TokenOpsTRF =>
    LET d == Disposition(op, tok)
    IN  /\ raised = "none"
        /\ (ret = <<>>) <=> (d \in {"SKIP", "STOPWORD"})
        /\ d = "NUMERIC" =>
             ret = (IF op = "_normalize_token" THEN tok.text ELSE W_num)
        /\ d \in {"NEGATION", "CONTENT"} => ret = FoldedLemma(tok)

\* La as punctuation: SKIP, though its lemma "la" alone would be kept or
\* dropped by the stop words
C18_Witness ==
  /\ op = "_normalize_token"
  /\ tok = Token(W_La, W_la, "X", TRUE, FALSE, TRUE, FALSE)
  /\ Disposition(op, tok) = "SKIP"
  /\ ret = <<>>

-----------------------------------------------------------------------------
(* Properties of the output of numeric tokens                              *)

ProgramsTRF == {"SentencePreprocTransformer", "NLP_sentence_preproc_trf"}

NumericPolicies == {"preserve_original", "mark_as_placeholder"}

\* C19 as claimed: the output of numeric tokens is a choice of the
\* configuration made at construction; under preserve_original the output of
\* every numeric token is its text, under mark_as_placeholder the placeholder.
C19_NumericPolicyConfigured ==
  variant \in ProgramsTRF =>
    /\ "numeric_policy" \in DOMAIN config
    /\ config.numeric_policy \in NumericPolicies
    /\ (op \in TokenOpsTRF /\ NumericBy(op, tok)) =>
         ret = (IF config.numeric_policy = "preserve_original"
                THEN tok.text ELSE W_num)

\* C19 as amended: the configuration holds no choice for numeric tokens; the
\* program decides: SentencePreprocTransformer gives every numeric token's
\* text as it is (not lowercased, lemmatized or folded), whatever the
\* configuration and the stop words, and NLP_sentence_preproc_trf gives
\* "<num>" for every numeric token.
C19_NumericPolicyByProgram ==
  /\ variant \in ProgramsTRF => "numeric_policy" \notin DOMAIN config
  /\ (op = "_normalize_token" /\ _is_numeric_token(tok)) => ret = tok.text
  /\ (op = "normalize_token" /\ is_numeric_token(tok)) => ret = W_num

\* No with like_num: the output is "No", neither the lemma "no" nor "<num>"
C19_Witness ==
  /\ op = "_normalize_token"
  /\ tok = Token(W_No, W_no, "X", TRUE, FALSE, FALSE, TRUE)
  /\ ret = W_No

-----------------------------------------------------------------------------
(* Properties of the order of the tests                                    *)

\* C20 as claimed: the SKIP test comes before the NUMERIC test: every token
\* that is a space or punctuation, and every token neither alphabetic nor
\* numeric, has the empty output, even when it is numeric.
C20_SkipBeforeNumeric ==
  op \in TokenOpsTRF =>
    ((tok.is_space \/ tok.is_punct \/ (~tok.is_alpha /\ ~NumericBy(op, tok)))
       => ret = <<>>)

\* C20 as amended: the NUMERIC test comes before the SKIP test: a numeric
\* token has the numeric output even when it is a space or punctuation; a
\* token that is not numeric and is a space or punctuation has the empty
\* output; is_alpha is not read: a token that is not numeric, not a space
\* and not punctuation, and whose folded lemma is not a stop word, has its
\* folded lemma as output, alphabetic or not.
C20_NumericBeforeSkip ==
  op \in TokenOpsTRF =>
    /\ NumericBy(op, tok) =>
         /\ ret = (IF op = "_normalize_token" THEN tok.text ELSE W_num)
         /\ (tok.text # <<>> => ret # <<>>)
    /\ (~NumericBy(op, tok) /\ (tok.is_space \/ tok.is_punct)) => ret = <<>>
    /\ (/\ ~NumericBy(op, tok)
        /\ ~tok.is_space
        /\ ~tok.is_punct
        /\ FoldedLemma(tok) \notin STOP_ES_NOACC) => ret = FoldedLemma(tok)

\* 12% marked as punctuation: numeric by its text, and kept as "12%"
C20_Witness ==
  /\ op = "_normalize_token"
  /\ tok = Token(W_pct, W_pct, "X", TRUE, FALSE, TRUE, FALSE)
  /\ ret = W_pct

-----------------------------------------------------------------------------
(* Properties of the output of kept lemmas                                 *)

\* C21 as claimed: the output of a NEGATION token is its resolved lemma, the
\* lowercased lemma, not the accent-folded form: an accented negation lemma
\* keeps its accents.
C21_NegationOutputUnfolded ==
  (op \in TokenOpsTRF /\ Disposition(op, tok) = "NEGATION")
    => ret = lower(tok.lemma_)

\* C21 as amended: the output of a NEGATION token is the accent-folded
\* lowercased lemma, the form that was compared against negation_keep, hence
\* a term of negation_keep; it is the lowercased lemma itself only when
\* folding leaves that lemma as it is.
C21_NegationOutputFolded ==
  (op \in TokenOpsTRF /\ Disposition(op, tok) = "NEGATION")
    => /\ ret = strip_accents(lower(tok.lemma_))
       /\ ret \in NEG_KEEP_BASE
       /\ (ret = lower(tok.lemma_))
            <=> (strip_accents(lower(tok.lemma_)) = lower(tok.lemma_))

\* Ningún with the lemma Ningún and ningun in negation_keep: output ningun
C21_Witness ==
  /\ op = "_normalize_token"
  /\ tok = Token(W_Ningun, W_Ningun, "X", TRUE, FALSE, FALSE, FALSE)
  /\ W_ningun_noacc \in NEG_KEEP_BASE
  /\ ret = W_ningun_noacc

\* resolve as the specification describes it, with the override map ov: the
\* override of the lowercased text, else the lowercased lemma, else the
\* lowercased text
Resolved(t, ov) ==
  IF lower(t.text) \in DOMAIN ov THEN ov[lower(t.text)]
  ELSE IF t.lemma_ # <<>> THEN lower(t.lemma_)
  ELSE lower(t.text)

\* the transformer programs have no override map
NoOverrides == <<>>

\* the outputs of SentencePreproc.run and preprocess are the resolved lemmas
\* of the kept tokens, not accent-folded
ContentLG ==
  /\ op = "_extra_lemmas" => ret = Resolved(tok, EXTRA_LEMMAS)
  /\ op = "lemma_with_overrides" => ret = Resolved(tok, LEMMA_OVERRIDES_ES_MX)
  /\ op = "SentencePreproc.run" =>
       \A i \in KeptLG(doc) :
         ret[Rank(KeptLG(doc), i)] = Resolved(doc[i], EXTRA_LEMMAS)
  /\ op = "preprocess" =>
       \A i \in KeptScript(doc) :
         ret[Rank(KeptScript(doc), i)] = Resolved(doc[i], LEMMA_OVERRIDES_ES_MX)

\* C22 as claimed: the output of a CONTENT token is resolve(token, config),
\* the override first, then the lowercased lemma, then the lowercased text
\* when the lemma is empty, accent-folded in the transformer programs and
\* plain otherwise; a content token without lemma is output as its
\* lowercased text, not dropped.
C22_ContentFromResolve ==
  /\ ContentLG
  /\ (/\ op \in TokenOpsTRF
      /\ WordToken(op, tok)
      /\ Folded(Resolved(tok, NoOverrides)) \notin (NEG_KEEP_BASE \cup STOP_ES_NOACC))
       => ret = Folded(Resolved(tok, NoOverrides))

\* C22 as amended: in SentencePreproc and NLP_sentence_preproc the output of
\* a kept token is resolve(token, config), not accent-folded.  In the
\* transformer programs the output of a CONTENT token is the lowercased,
\* accent-folded tokenizer lemma: no override map is read and the text is no
\* fallback, so a token without lemma that is neither numeric nor a space nor
\* punctuation has the empty output and is dropped.
C22_ContentByProgram ==
  /\ ContentLG
  /\ (op \in TokenOpsTRF /\ Disposition(op, tok) = "CONTENT")
       => (ret = Folded(tok.lemma_) /\ tok.lemma_ # <<>>)
  /\ (op \in TokenOpsTRF /\ WordToken(op, tok) /\ tok.lemma_ = <<>>)
       => ret = <<>>

\* No without lemma, where no is neither a stop word nor a negation term:
\* the output is empty, not "no"
C22_Witness ==
  /\ op = "_normalize_token"
  /\ tok = Token(W_No, <<>>, "X", TRUE, FALSE, FALSE, FALSE)
  /\ W_no \notin (NEG_KEEP_BASE \cup STOP_ES_NOACC)
  /\ ret = <<>>

-----------------------------------------------------------------------------
(* Properties of the override map                                          *)

\* the canonical lemmas under which config.lemmas lists a form equal to the
\* text w but for the letter case
CanonicalOf(w) ==
  { config.lemmas[n][1] :
      n \in { m \in DOMAIN config.lemmas :
                \E v \in DOMAIN config.lemmas[m][2] :
                  lower(config.lemmas[m][2][v]) = lower(w) } }

\* C23: every key of the constructed override map is a lowercase string,
\* whatever the letter case of the surface variants in the configuration;
\* hence a token whose text is a configured variant, but for the letter
\* case, resolves to a canonical lemma of that variant.
C23_OverrideKeysLowercase ==
  variant = "SentencePreproc" =>
    /\ \A j \in DOMAIN EXTRA_LEMMAS : j = lower(j)
    /\ (op = "_extra_lemmas" /\ CanonicalOf(tok.text) # {})
         => ret \in CanonicalOf(tok.text)

-----------------------------------------------------------------------------
(* Properties of the stop word test of SentencePreproc and preprocess      *)

OpsLG == {"SentencePreproc.run", "preprocess"}

\* the override map and the resolver of the running program
OverridesLG ==
  IF variant = "SentencePreproc" THEN EXTRA_LEMMAS ELSE LEMMA_OVERRIDES_ES_MX

\* the tokens of d that are alphabetic and whose lowercased text is no stop word
SurfaceKept(d) ==
  { i \in DOMAIN d : d[i].is_alpha /\ lower(d[i].text) \notin STOPWORDS }

\* C24: in SentencePreproc and NLP_sentence_preproc the stop word test is
\* made on the lowercased text of the token, before the lemma is resolved:
\* the result holds one output, the resolved lemma, for exactly the
\* alphabetic tokens whose lowercased text is no stop word.  A token whose
\* lowercased text is a stop word is dropped even when that text is a key of
\* the override map, an alphabetic token whose text is no stop word is kept
\* even when its resolved lemma is a stop word, and a token that is not
\* alphabetic, a number included, is dropped.
C24_StopwordTestOnSurface ==
  op \in OpsLG =>
    /\ Len(ret) = Cardinality(SurfaceKept(doc))
    /\ \A i \in DOMAIN doc :
         IF i \in SurfaceKept(doc)
         THEN ret[Rank(SurfaceKept(doc), i)] = Resolved(doc[i], OverridesLG)
         ELSE \/ ~doc[i].is_alpha
              \/ lower(doc[i].text) \in STOPWORDS

\* "Es Las" with es a stop word and a key of the override map and la a stop
\* word: Es is dropped and Las is kept as la
C24_Witness ==
  /\ op = "SentencePreproc.run"
  /\ doc = <<T_Es, T_Las>>
  /\ W_es \in STOPWORDS
  /\ W_es \in DOMAIN EXTRA_LEMMAS
  /\ W_la \in STOPWORDS
  /\ ret = <<W_la>>

-----------------------------------------------------------------------------
(* Properties of the order of the tokens of the document                   *)

\* C10 as claimed: the tokens of the normalized document are the outputs of
\* exactly the kept tokens, one output per kept token, in the order of the
\* input; dropped tokens leave no trace and nothing is reordered or
\* duplicated.  The tokens of a document that is one string are its words.
C10_OneOutputPerKeptToken ==
  /\ op = "SentencePreproc.run" =>
       OutputsOfKept(ret, doc, KeptLG(doc), _extra_lemmas)
  /\ op = "preprocess" =>
       OutputsOfKept(ret, doc, KeptScript(doc), lemma_with_overrides)
  /\ op \in BatchOps =>
       \A n \in DOMAIN doc : split(ret[n]) = KeptOutputs(doc[n])

\* C10 as amended: SentencePreproc.run and preprocess return the outputs of
\* exactly the kept tokens, one output per kept token, in the order of the
\* input.  In the transformer programs the words of the document are the
\* words of the outputs of the kept tokens, output after output, in the
\* order of the input, nothing reordered, duplicated or left from a dropped
\* token; a kept token gives one word when its output holds no whitespace
\* and one word per word of its output otherwise (two for the lemma "de
\* el"), so that the words are the kept outputs, one per kept token, exactly
\* when no kept output holds whitespace.
C10_OrderPreserved ==
  /\ op = "SentencePreproc.run" =>
       OutputsOfKept(ret, doc, KeptLG(doc), _extra_lemmas)
  /\ op = "preprocess" =>
       OutputsOfKept(ret, doc, KeptScript(doc), lemma_with_overrides)
  /\ op \in BatchOps =>
       \A n \in DOMAIN doc :
         LET kept == KeptOutputs(doc[n])
         IN  /\ split(ret[n]) = Words(kept)
             /\ Len(split(ret[n])) >= Len(kept)
             /\ (split(ret[n]) = kept)
                  <=> (\A i \in DOMAIN kept : ~HasSpace(kept[i]))

\* "mamá Del": two kept tokens, and the three words mama, de, el
C10_Witness ==
  /\ op = "SentencePreprocTransformer.run"
  /\ doc = << <<T_mama, T_Del>> >>
  /\ ret = << W_mama_noacc \o SPACE \o W_de_el >>

=============================================================================
